---- MODULE Spec2Model ----
(***************************************************************************)
(* Model of the space-data-api client library.                             *)
(*                                                                         *)
(*   lib/space-data-service.ts : class SpaceData (generated-client based)  *)
(*       the credential cache (cachedToken, expiration), tryLogin,         *)
(*       validateResponse and the four conversion operations.              *)
(*   the older fetch-based class SpaceData : dataFromServer, fixedToJ2000, *)
(*       currentPosition.                                                  *)
(*                                                                         *)
(* JavaScript runs the code of an async function atomically between two    *)
(* awaits, so every action below is one such run: from a call or a         *)
(* resumption up to the next await, return or throw.                       *)
(***************************************************************************)
EXTENDS Integers, Sequences, FiniteSets, TLC

VARIABLES
    variant,        \* which class the application instantiated and how it uses it
    now,            \* Date.now(), in milliseconds
    cachedToken,    \* this.cachedToken (NullToken = null)
    expiration,     \* this.expiration
    interceptors,   \* number of functions in client.interceptors.request
    tokenPosts,     \* number of tokenPost calls issued so far
    issued,         \* number of tokens the token endpoint has issued so far
    calls,          \* number of operations invoked so far
    nextIdent,      \* number of uuid4() values drawn so far
    op,             \* per call slot: the invocation of a conversion operation
    leg,            \* per call slot: the invocation of a fetch-based operation
    probe,          \* a direct application of validateResponse to given arguments
    chk,            \* the invocation of check()
    lastLogin       \* history: the last login answer that tryLogin accepted, and when

vars == <<variant, now, cachedToken, expiration, interceptors, tokenPosts,
          issued, calls, nextIdent, op, leg, probe, chk, lastLogin>>

cache == <<cachedToken, expiration>>

-----------------------------------------------------------------------------
(* Bounds of the exploration *)

MaxCalls == 2
MaxElapsed == 2400000

\* the call slots: two invocations can be in flight at the same time
Ops == {1, 2}

-----------------------------------------------------------------------------
(* Constants of the program *)

SafetyMargin == 60 * 1000
Lifetime == 20 * 60 * 1000

NullToken == 0
NoIdent == 0

\* the clock reading when the client is constructed
StartNow == 2 * Lifetime

\* the amounts by which the clock is seen to advance between two events
TickSteps == {Lifetime - SafetyMargin, Lifetime + SafetyMargin}

LegacyOperations == {"fixedToJ2000", "currentPosition"}

-----------------------------------------------------------------------------
(* Responses of the generated client: {data?, error?}                      *)
(*   detailKind : the shape of resp.error.detail                           *)
(*                "none" (no error, or an error without detail),           *)
(*                "list" (ValidationError[])                                *)
(*   detail     : the msg fields of the list                               *)
(*   hasData    : resp.data is defined                                     *)
(*   error      : resp.data.error ("" when absent)                         *)
(*   ident      : resp.data.ident (NoIdent when absent)                    *)
(*   payload    : what resp.data carries: the ident of the request the     *)
(*                coordinates were computed for, or the token issued       *)

AllShapes ==
    { [detailKind |-> "none", detail |-> <<>>],
      [detailKind |-> "list", detail |-> <<>>],
      [detailKind |-> "list", detail |-> <<"m1">>],
      [detailKind |-> "list", detail |-> <<"m1", "m2">>] }

\* the shapes the service answers with while operations are running
DetailShapes ==
    { [detailKind |-> "none", detail |-> <<>>],
      [detailKind |-> "list", detail |-> <<"m1">>] }

MkResp(shape, hasData, error, ident, payload) ==
    [detailKind |-> shape.detailKind, detail |-> shape.detail, hasData |-> hasData,
     error |-> error, ident |-> ident, payload |-> payload]

NoData(shape) == MkResp(shape, FALSE, "", NoIdent, 0)

\* what the service may answer to the request that carried ident i
Responses(i) ==
    { NoData(s) : s \in DetailShapes }
    \cup { MkResp(s, TRUE, e, id, i) :
             s \in DetailShapes, e \in {"", "e1"}, id \in {i} }

\* what the token endpoint may answer; tok is the token it issues
TokenResponses(tok) ==
    { NoData(s) : s \in DetailShapes }
    \cup { MkResp(s, TRUE, e, NoIdent, tok) : s \in DetailShapes, e \in {"", "e1"} }

NoResp == NoData([detailKind |-> "none", detail |-> <<>>])

\* the token endpoint granted a token: a payload and no error of either kind
Granted(resp) ==
    /\ resp.hasData
    /\ resp.error = ""
    /\ ~(resp.detailKind = "list" /\ Len(resp.detail) > 0)

\* no login has been accepted yet
NoLogin == [token |-> NullToken, at |-> 0]

-----------------------------------------------------------------------------
(* validateResponse *)

Outcome(kind, msg) == [kind |-> kind, msg |-> msg]

Passed == Outcome("ok", <<>>)
NoOutcome == Outcome("none", <<>>)

\* variant: only the first message is kept
JoinMsgsFirstOnly(detail) ==
    IF detail = <<>> THEN <<>>
    ELSE <<Head(detail), "\n">>

RECURSIVE JoinMsgs(_)
JoinMsgs(detail) ==
    IF detail = <<>> THEN <<>>
    ELSE <<Head(detail), "\n">> \o JoinMsgs(Tail(detail))

HasValidationErrors(resp) ==
    resp.detailKind = "list" /\ Len(resp.detail) > 0

ValidationMsg(resp) == <<"Validation error: ">> \o JoinMsgs(resp.detail)

\* variant: the application error of the payload is not looked at
HasApplicationErrorNever(resp) == FALSE

HasApplicationError(resp) == resp.error # ""

\* variant: the ident of the payload is not compared
IdentMismatchNever(resp, ident) == FALSE

\* variant: the comparison of the idents is inverted
IdentMismatchInverted(resp, ident) == ident # NoIdent /\ resp.ident = ident

IdentMismatch(resp, ident) == ident # NoIdent /\ resp.ident # ident

OutOfOrderMsg(expected, got) ==
    <<"Out-of-order messaging (expected ", ToString(expected), " got ", ToString(got)>>

\* variant: the ident is compared before the application error is looked at
validateResponseIdentFirst(resp, ident) ==
    IF HasValidationErrors(resp) THEN Outcome("Validation", ValidationMsg(resp))
    ELSE IF ~resp.hasData THEN Outcome("TypeError", <<"data is undefined">>)
    ELSE IF IdentMismatch(resp, ident)
         THEN Outcome("OutOfOrder", OutOfOrderMsg(ident, resp.ident))
    ELSE IF HasApplicationError(resp) THEN Outcome("Application", <<resp.error>>)
    ELSE Passed

validateResponse(resp, ident) ==
    IF HasValidationErrors(resp) THEN Outcome("Validation", ValidationMsg(resp))
    ELSE IF ~resp.hasData THEN Outcome("TypeError", <<"data is undefined">>)
    ELSE IF HasApplicationError(resp) THEN Outcome("Application", <<resp.error>>)
    ELSE IF IdentMismatch(resp, ident)
         THEN Outcome("OutOfOrder", OutOfOrderMsg(ident, resp.ident))
    ELSE Passed

-----------------------------------------------------------------------------
(* tryLogin *)

\* variant: the comparison with tooClose is turned around
NeedsLoginFlipped(token, exp, t) ==
    LET tooClose == t - SafetyMargin
    IN  token = NullToken \/ exp >= tooClose

NeedsLogin(token, exp, t) ==
    LET tooClose == t - SafetyMargin
    IN  token = NullToken \/ exp <= tooClose

\* what the caller of an operation saw in the cache when it called
Observation(token, exp, t) ==
    IF token = NullToken THEN "empty"
    ELSE IF exp - t <= SafetyMargin THEN "near"
    ELSE "fresh"

\* the resumption of tryLogin after `await tokenPost`: the outcome of
\* validateResponse and the cache it leaves
\* variant: the answer of tokenPost is not validated
LoginResumeUnchecked(resp, token, exp, t) ==
    [outcome |-> Passed, token |-> resp.payload, expiration |-> t + Lifetime]

\* variant: the token is stored before the answer is validated
LoginResumeStoreFirst(resp, token, exp, t) ==
    LET v == validateResponse(resp, NoIdent)
    IN  IF v.kind = "ok"
        THEN [outcome |-> v, token |-> resp.payload, expiration |-> t + Lifetime]
        ELSE [outcome |-> v, token |-> resp.payload, expiration |-> exp]

\* variant: the token of a good answer is stored, the expiration is not
LoginResumeTokenOnly(resp, token, exp, t) ==
    LET v == validateResponse(resp, NoIdent)
    IN  IF v.kind = "ok"
        THEN [outcome |-> v, token |-> resp.payload, expiration |-> exp]
        ELSE [outcome |-> v, token |-> token, expiration |-> exp]

\* variant: a failed login still renews the expiration
LoginResumeExtendOnFail(resp, token, exp, t) ==
    LET v == validateResponse(resp, NoIdent)
    IN  IF v.kind = "ok"
        THEN [outcome |-> v, token |-> resp.payload, expiration |-> t + Lifetime]
        ELSE [outcome |-> v, token |-> token, expiration |-> t + Lifetime]

\* variant: a failed login clears the cache
LoginResumeResetOnFail(resp, token, exp, t) ==
    LET v == validateResponse(resp, NoIdent)
    IN  IF v.kind = "ok"
        THEN [outcome |-> v, token |-> resp.payload, expiration |-> t + Lifetime]
        ELSE [outcome |-> v, token |-> NullToken, expiration |-> 0]

\* variant: a failed login is swallowed and the operation goes on
LoginResumeSwallow(resp, token, exp, t) ==
    LET v == validateResponse(resp, NoIdent)
    IN  IF v.kind = "ok"
        THEN [outcome |-> v, token |-> resp.payload, expiration |-> t + Lifetime]
        ELSE [outcome |-> Passed, token |-> token, expiration |-> exp]

LoginResume(resp, token, exp, t) ==
    LET v == validateResponse(resp, NoIdent)
    IN  IF v.kind = "ok"
        THEN [outcome |-> v, token |-> resp.payload, expiration |-> t + Lifetime]
        ELSE [outcome |-> v, token |-> token, expiration |-> exp]

\* JSON.stringify of the opaque token
JSONstringify(token) == IF token = NullToken THEN "null" ELSE ToString(token)

\* variant: the token object is put into the template string as it is
AuthorizationHeaderUnserialized(token) == <<"Bearer ", "[object Object]">>

\* the value the interceptor of tryLogin sets as Authorization header
AuthorizationHeader(token) == <<"Bearer ", JSONstringify(token)>>

\* the Authorization header of a request that passed through the n registered
\* request interceptors while this.cachedToken was token (<<>>: none set)
InterceptedHeader(n, token) ==
    IF n > 0 THEN AuthorizationHeader(token) ELSE <<>>

-----------------------------------------------------------------------------
(* The fetch-based class: dataFromServer and its two callers               *)

\* the bodies the service may answer with to the request that carried ident i
Bodies(i) ==
    { MkResp([detailKind |-> "none", detail |-> <<>>], TRUE, e, id, i) :
        e \in {"", "e1"}, id \in {i, NoIdent} }

\* the callbacks a caller may hand to dataFromServer: setData is null, a
\* function that returns or one that throws; isLoading returns or throws
SetDataChoices == {"null", "returns", "throws"}
LoadingChoices == {"returns", "throws"}

\* the value dataFromServer assigns to `error`; event is what happened:
\* "loading" (isLoading(true) threw), "reject" (fetch rejected), "unparsable"
\* (response.json() rejected) or "json" (a body was parsed)
LegacyError(ident, event, json) ==
    IF event = "loading" THEN Outcome("Callback", <<"thrown by isLoading">>)
    ELSE IF event = "reject" THEN Outcome("Transport", <<"fetch failed">>)
    ELSE IF event = "unparsable" THEN Outcome("Parse", <<"invalid json">>)
    ELSE IF json.ident # ident
         THEN Outcome("OutOfOrder", OutOfOrderMsg(ident, json.ident))
    ELSE IF json.error # "" THEN Outcome("Application", <<json.error>>)
    ELSE NoOutcome

\* variant: setData is handed the body before the body is examined
InnerTrySetDataFirst(ident, json, onErrorThrows, setData) ==
    LET err == LegacyError(ident, "json", json)
        set == IF setData = "null" THEN <<>> ELSE <<"setData">>
    IN  IF setData = "throws"
        THEN [log |-> set, threw |-> TRUE, error |-> err]
        ELSE IF err.kind # "none"
        THEN [log |-> set \o <<"onError">>, threw |-> onErrorThrows, error |-> err]
        ELSE [log |-> set, threw |-> FALSE, error |-> err]

\* the inner try block once response.json() has resolved with json: the
\* callbacks it runs, whether it is left by an exception, and `error`
InnerTry(ident, json, onErrorThrows, setData) ==
    LET err == LegacyError(ident, "json", json)
    IN  IF err.kind # "none"
        THEN [log |-> <<"onError">>, threw |-> onErrorThrows, error |-> err]
        ELSE IF setData = "null"
        THEN [log |-> <<>>, threw |-> FALSE, error |-> err]
        ELSE [log |-> <<"setData">>, threw |-> setData = "throws", error |-> err]

\* dataFromServer from the resumption after its awaits (or from the throw of
\* isLoading(true)) to its end: the callbacks run in order, the value of
\* `error`, and the callback whose exception leaves the function, if any
dataFromServer(ident, event, json, onErrorThrows, setData, loading) ==
    LET inside == event \in {"unparsable", "json"}
        inner == IF event = "json"
                 THEN InnerTry(ident, json, onErrorThrows, setData)
                 ELSE [log |-> <<>>, threw |-> TRUE, error |-> LegacyError(ident, event, json)]
        \* inner catch: error = err; onError(err)
        caught == inside /\ inner.threw
        log1 == IF caught THEN inner.log \o <<"onError">> ELSE inner.log
        \* outer catch: error = err; onError(err)
        outer == IF inside THEN caught /\ onErrorThrows ELSE TRUE
        log2 == IF outer THEN log1 \o <<"onError">> ELSE log1
        escaped == outer /\ onErrorThrows
        err == IF inner.error.kind # "none" THEN inner.error
               ELSE IF caught THEN Outcome("Callback", <<"thrown by setData">>)
               ELSE NoOutcome
    IN  [error |-> err,
         thrown |-> IF loading = "throws" THEN "isLoading"
                    ELSE IF escaped THEN "onError"
                    ELSE "none",
         log |-> log2 \o <<"isLoading(false)">>]

\* what the caller of dataFromServer gets: an exception, the object
\* {error: error}, or the parsed body
LegacyResult(d) ==
    IF d.thrown # "none" THEN Outcome("Callback", <<"thrown by ", d.thrown>>)
    ELSE IF d.error.kind # "none" THEN d.error
    ELSE Passed

-----------------------------------------------------------------------------
(* State of one invocation of a conversion operation                       *)
(*   pc : "idle"   not invoked                                             *)
(*        "login"  suspended at `await tokenPost`                          *)
(*        "ready"  tryLogin has returned, `await this.tryLogin()` resumes  *)
(*        "sent"   suspended at `await convertPost` (or its siblings)      *)
(*        "done"   returned a value    "failed"  raised                    *)
(*   obs       what the caller saw in the cache when it called             *)
(*   logins    the tokenPost calls it issued, tokenResp the answer         *)
(*   requests  the conversion requests it issued, resp the answer          *)

IdleOp ==
    [pc |-> "idle", obs |-> "empty", logins |-> 0, tokenResp |-> NoResp,
     requests |-> 0, ident |-> NoIdent, header |-> <<>>,
     resp |-> NoResp, result |-> NoOutcome, returned |-> 0]

\* an invocation of the fetch-based class:
\*   pc : "idle", "fetching" (await fetch), "parsing" (await response.json()),
\*        "done", "failed"
IdleLeg ==
    [pc |-> "idle", kind |-> "fixedToJ2000", ident |-> NoIdent, onErrorThrows |-> FALSE,
     setData |-> "null", loading |-> "returns", log |-> <<>>,
     json |-> NoResp, result |-> NoOutcome, returned |-> 0]

\* the invocation of check(): pc is "idle", "waiting" (await checkGet / fetch),
\* "done" (returned) or "failed" (raised); event is what the request did
IdleCheck == [pc |-> "idle", event |-> "none", result |-> "none"]

NoProbe == [resp |-> NoResp, ident |-> NoIdent, applied |-> FALSE, out |-> NoOutcome]

\* the arguments validateResponse is applied to directly
ProbeResponses ==
    { NoData(s) : s \in AllShapes }
    \cup { MkResp(s, TRUE, e, id, id) :
             s \in AllShapes, e \in {"", "e1"}, id \in {NoIdent, 1, 2} }

ProbeIdents == {NoIdent, 1, 2}

Init ==
    /\ variant \in {"client", "fetch", "direct", "validate"}
    /\ now = StartNow
    /\ cachedToken = NullToken
    /\ expiration = 0
    /\ interceptors = 0
    /\ tokenPosts = 0
    /\ issued = 0
    /\ calls = 0
    /\ nextIdent = 0
    /\ op = [o \in Ops |-> IdleOp]
    /\ leg = [o \in Ops |-> IdleLeg]
    /\ IF variant = "validate"
       THEN \E r \in ProbeResponses, i \in ProbeIdents :
                probe = [NoProbe EXCEPT !.resp = r, !.ident = i]
       ELSE probe = NoProbe
    /\ chk = IdleCheck
    /\ lastLogin = NoLogin

\* time passes
Tick(d) ==
    /\ variant = "client"
    /\ now + d - StartNow <= MaxElapsed
    /\ now' = now + d
    /\ UNCHANGED <<lastLogin, variant, cache, interceptors, tokenPosts, issued, calls,
                   nextIdent, op, leg, probe, chk>>

\* one of convertCoords, fixedToJ2000, J2000ToFixed, currentPosition is invoked
\* and runs tryLogin up to its first await or to its end
Call(o) ==
    /\ variant = "client"
    /\ op[o].pc \in {"idle", "done", "failed"}
    /\ calls < MaxCalls
    /\ calls' = calls + 1
    /\ LET fresh == [IdleOp EXCEPT !.obs = Observation(cachedToken, expiration, now)]
       IN  IF NeedsLogin(cachedToken, expiration, now)
           THEN /\ tokenPosts' = tokenPosts + 1
                /\ op' = [op EXCEPT ![o] = [fresh EXCEPT !.pc = "login", !.logins = 1]]
                /\ UNCHANGED interceptors
           ELSE /\ interceptors' = interceptors + 1
                /\ op' = [op EXCEPT ![o] = [fresh EXCEPT !.pc = "ready"]]
                /\ UNCHANGED tokenPosts
    /\ UNCHANGED <<lastLogin, variant, now, cache, issued, nextIdent, leg, probe, chk>>

\* tokenPost resolves with resp and tryLogin runs to its end; lastLogin
\* records the answer and the instant whenever the answer grants a token
LoginResponse(o, resp) ==
    /\ op[o].pc = "login"
    /\ LET r == LoginResume(resp, cachedToken, expiration, now)
       IN  /\ cachedToken' = r.token
           /\ expiration' = r.expiration
           /\ IF r.outcome.kind = "ok"
              THEN /\ interceptors' = interceptors + 1
                   /\ op' = [op EXCEPT ![o].pc = "ready", ![o].tokenResp = resp]
              ELSE /\ op' = [op EXCEPT ![o].pc = "failed", ![o].tokenResp = resp,
                                       ![o].result = r.outcome]
                   /\ UNCHANGED interceptors
    /\ issued' = IF resp.hasData THEN issued + 1 ELSE issued
    /\ lastLogin' = IF Granted(resp) THEN [token |-> resp.payload, at |-> now]
                    ELSE lastLogin
    /\ UNCHANGED <<variant, now, tokenPosts, calls, nextIdent, leg, probe, chk>>

\* the token endpoint answers the tokenPost of slot o
LoginAnswer(o) ==
    \E resp \in TokenResponses(issued + 1) : LoginResponse(o, resp)

\* tokenPost rejects (transport failure)
LoginReject(o) ==
    /\ op[o].pc = "login"
    /\ op' = [op EXCEPT ![o].pc = "failed",
                        ![o].result = Outcome("Transport", <<"fetch failed">>)]
    /\ UNCHANGED <<lastLogin, variant, now, cache, interceptors, tokenPosts, issued, calls,
                   nextIdent, leg, probe, chk>>

\* the operation resumes after tryLogin, draws its ident and issues the request;
\* every registered interceptor sets the header from this.cachedToken
Send(o) ==
    /\ op[o].pc = "ready"
    /\ nextIdent' = nextIdent + 1
    /\ op' = [op EXCEPT ![o].pc = "sent", ![o].ident = nextIdent + 1,
                        ![o].requests = @ + 1,
                        ![o].header = InterceptedHeader(interceptors, cachedToken)]
    /\ UNCHANGED <<lastLogin, variant, now, cache, interceptors, tokenPosts, issued, calls,
                   leg, probe, chk>>

\* the remote call resolves with resp and the operation runs to its end
Response(o, resp) ==
    /\ op[o].pc = "sent"
    /\ LET v == validateResponse(resp, op[o].ident)
       IN  op' = [op EXCEPT ![o].pc = IF v.kind = "ok" THEN "done" ELSE "failed",
                            ![o].resp = resp,
                            ![o].result = v,
                            ![o].returned = IF v.kind = "ok" THEN resp.payload ELSE 0]
    /\ UNCHANGED <<lastLogin, variant, now, cache, interceptors, tokenPosts, issued, calls,
                   nextIdent, leg, probe, chk>>

\* the response to the request of call slot src reaches the operation in slot o
Deliver(o, src) ==
    /\ op[src].ident # NoIdent
    /\ \E resp \in Responses(op[src].ident) : Response(o, resp)

\* the remote call rejects (transport failure)
RequestReject(o) ==
    /\ op[o].pc = "sent"
    /\ op' = [op EXCEPT ![o].pc = "failed",
                        ![o].result = Outcome("Transport", <<"fetch failed">>)]
    /\ UNCHANGED <<lastLogin, variant, now, cache, interceptors, tokenPosts, issued, calls,
                   nextIdent, leg, probe, chk>>

-----------------------------------------------------------------------------
(* Actions of the fetch-based class *)

legacyFrame == <<lastLogin, variant, now, cache, interceptors, tokenPosts, issued, op, probe, chk>>

\* the invocation in record l after dataFromServer has run to its end and,
\* for fixedToJ2000 / currentPosition, its caller has; a direct invocation of
\* dataFromServer ends "resolved" (with the body or with {error: error}) or
\* "rejected"
Finished(l, event, json) ==
    LET d == dataFromServer(l.ident, event, json, l.onErrorThrows, l.setData, l.loading)
        r == LegacyResult(d)
    IN  [l EXCEPT !.pc = IF l.kind = "dataFromServer"
                         THEN IF d.thrown = "none" THEN "resolved" ELSE "rejected"
                         ELSE IF r.kind = "ok" THEN "done" ELSE "failed",
                  !.json = json,
                  !.result = r,
                  !.returned = IF r.kind = "ok" THEN json.payload ELSE 0,
                  !.log = l.log \o d.log]

\* fixedToJ2000 or currentPosition is invoked: uuid4(), then dataFromServer
\* with setData = null and isLoading = noLoading: isLoading(true), fetch
LegacyCall(o, k, throws) ==
    /\ variant = "fetch"
    /\ leg[o].pc \in {"idle", "done", "failed", "resolved", "rejected"}
    /\ calls < MaxCalls
    /\ calls' = calls + 1
    /\ nextIdent' = nextIdent + 1
    /\ leg' = [leg EXCEPT ![o] = [IdleLeg EXCEPT !.pc = "fetching", !.kind = k,
                                                 !.ident = nextIdent + 1,
                                                 !.onErrorThrows = throws,
                                                 !.log = <<"isLoading(true)", "fetch">>]]
    /\ UNCHANGED legacyFrame

\* dataFromServer is invoked with callbacks of the caller's choosing:
\* isLoading(true), then fetch unless isLoading threw
DirectCall(o, throws, setData, loading) ==
    /\ variant = "direct"
    /\ leg[o].pc \in {"idle", "done", "failed", "resolved", "rejected"}
    /\ calls < MaxCalls
    /\ calls' = calls + 1
    /\ nextIdent' = nextIdent + 1
    /\ LET l == [IdleLeg EXCEPT !.kind = "dataFromServer", !.ident = nextIdent + 1,
                                !.onErrorThrows = throws, !.setData = setData,
                                !.loading = loading, !.log = <<"isLoading(true)">>]
       IN  leg' = [leg EXCEPT ![o] =
                      IF loading = "throws"
                      THEN Finished(l, "loading", NoResp)
                      ELSE [l EXCEPT !.pc = "fetching", !.log = l.log \o <<"fetch">>]]
    /\ UNCHANGED legacyFrame

\* dataFromServer runs from a resumption to its end, then its caller does
LegacyFinish(o, event, json) ==
    /\ leg' = [leg EXCEPT ![o] = Finished(leg[o], event, json)]
    /\ UNCHANGED <<calls, nextIdent>>
    /\ UNCHANGED legacyFrame

\* fetch rejects
LegacyFetchReject(o) ==
    /\ leg[o].pc = "fetching"
    /\ LegacyFinish(o, "reject", NoResp)

\* fetch resolves; dataFromServer suspends at `await response.json()`
LegacyFetched(o) ==
    /\ leg[o].pc = "fetching"
    /\ leg' = [leg EXCEPT ![o].pc = "parsing"]
    /\ UNCHANGED <<calls, nextIdent>>
    /\ UNCHANGED legacyFrame

\* response.json() rejects
LegacyUnparsable(o) ==
    /\ leg[o].pc = "parsing"
    /\ LegacyFinish(o, "unparsable", NoResp)

\* response.json() resolves with the body answered to the request of slot src
LegacyParsed(o, src) ==
    /\ leg[o].pc = "parsing"
    /\ leg[src].ident # NoIdent
    /\ \E json \in Bodies(leg[src].ident) : LegacyFinish(o, "json", json)

-----------------------------------------------------------------------------
(* check(), of both classes *)

\* variant: the failure of the request is passed on to the caller
checkRethrows(event) == IF event = "rejected" THEN "raise" ELSE "this"

\* what check() does after its await: null from the catch block, else this
check(event) == IF event = "rejected" THEN "null" ELSE "this"

\* check() is invoked and issues the liveness request
CheckCall ==
    /\ variant \in {"client", "fetch"}
    /\ chk.pc \in {"idle", "done", "failed"}
    /\ calls < MaxCalls
    /\ calls' = calls + 1
    /\ chk' = [IdleCheck EXCEPT !.pc = "waiting"]
    /\ UNCHANGED <<lastLogin, variant, now, cache, interceptors, tokenPosts, issued,
                   nextIdent, op, leg, probe>>

\* the liveness request resolves (event "resolved", whatever the status of the
\* answer) or rejects (event "rejected"), and check() runs to its end
CheckEnd(event) ==
    /\ chk.pc = "waiting"
    /\ LET r == check(event)
       IN  chk' = [pc |-> IF r = "raise" THEN "failed" ELSE "done",
                   event |-> event, result |-> r]
    /\ UNCHANGED <<lastLogin, variant, now, cache, interceptors, tokenPosts, issued, calls,
                   nextIdent, op, leg, probe>>

-----------------------------------------------------------------------------
(* validateResponse applied to the arguments chosen initially *)

Validate ==
    /\ variant = "validate"
    /\ ~probe.applied
    /\ probe' = [probe EXCEPT !.applied = TRUE,
                              !.out = validateResponse(probe.resp, probe.ident)]
    /\ UNCHANGED <<lastLogin, variant, now, cache, interceptors, tokenPosts, issued, calls,
                   nextIdent, op, leg, chk>>

-----------------------------------------------------------------------------

Next ==
    \/ \E d \in TickSteps : Tick(d)
    \/ \E o \in Ops : Call(o)
    \/ \E o \in Ops : LoginAnswer(o)
    \/ \E o \in Ops : LoginReject(o)
    \/ \E o \in Ops : Send(o)
    \/ \E o, src \in Ops : Deliver(o, src)
    \/ \E o \in Ops : RequestReject(o)
    \/ \E o \in Ops, k \in LegacyOperations, throws \in BOOLEAN : LegacyCall(o, k, throws)
    \/ \E o \in Ops, throws \in BOOLEAN, setData \in SetDataChoices, loading \in LoadingChoices :
           DirectCall(o, throws, setData, loading)
    \/ \E o \in Ops : LegacyFetchReject(o)
    \/ \E o \in Ops : LegacyFetched(o)
    \/ \E o \in Ops : LegacyUnparsable(o)
    \/ \E o, src \in Ops : LegacyParsed(o, src)
    \/ CheckCall
    \/ \E event \in {"resolved", "rejected"} : CheckEnd(event)
    \/ Validate

Spec == Init /\ [][Next]_vars

-----------------------------------------------------------------------------
(* Properties *)

\* the response carries a non-empty list of validation errors
NonEmptyList(resp) == resp.detailKind = "list" /\ resp.detail # <<>>

\* the response carries a payload without any error
Clean(resp) == resp.hasData /\ resp.error = "" /\ ~NonEmptyList(resp)

\* the operation in slot o has received the answer to a conversion request
Answered(o) ==
    op[o].requests > 0 /\ op[o].pc \in {"done", "failed"} /\ op[o].result.kind # "Transport"

\* C1: whenever tryLogin returns without raising, the cache holds a non-null
\* token whose expiration is more than 60 seconds after the current time.
C1_ValidOnReturn ==
    [][\A o \in Ops :
          (op[o].pc # "ready" /\ op'[o].pc = "ready")
              => (cachedToken' # NullToken /\ now' < expiration' - SafetyMargin)]_vars

\* C2: an operation called while a token is cached with expiration - now <= 60 s
\* performs a login exchange before it issues its conversion request.
C2_NearExpiryLogsIn ==
    \A o \in Ops : (op[o].obs = "near" /\ op[o].requests > 0) => op[o].logins > 0

\* C3: an operation called while a token is cached with expiration more than
\* 60 s after now performs no login exchange, and none of its steps changes
\* cachedToken or expiration.
C3_FreshNoLogin ==
    [][\A o \in Ops :
          (op'[o] # op[o] /\ op'[o].pc # "idle" /\ op'[o].obs = "fresh")
              => /\ op'[o].logins = 0
                 /\ op'[o].pc # "login"
                 /\ tokenPosts' = tokenPosts
                 /\ UNCHANGED cache]_vars

C3_Witness ==
    \E o \in Ops : op[o].obs = "fresh" /\ op[o].pc = "done" /\ cachedToken # NullToken

\* C4: an operation called on an empty cache performs exactly one login
\* exchange, and issues its conversion request only after that exchange has
\* answered with a token and no error.
C4_EmptyCacheOneLogin ==
    \A o \in Ops :
        (op[o].pc # "idle" /\ op[o].obs = "empty")
            => /\ op[o].logins = 1
               /\ op[o].requests <= 1
               /\ op[o].requests > 0 => Clean(op[o].tokenResp)

C4_Witness ==
    \E o \in Ops : op[o].obs = "empty" /\ op[o].pc = "sent" /\ op[o].logins = 1

\* C5: at most one Authorization-setting interceptor is registered on the
\* HTTP client, whatever calls were made.
C5_AtMostOneInterceptor == interceptors <= 1

\* the ident law of an invocation that got answer r for the ident i it sent
\* and ended in state pc with result res
IdentLaw(pc, i, r, res) ==
    /\ pc = "done" => r.ident = i
    /\ (Clean(r) /\ r.ident # i)
           => (pc = "failed" /\ res = Outcome("OutOfOrder", OutOfOrderMsg(i, r.ident)))

\* C6: an operation returns a payload only if the ident of the response equals
\* the ident it sent, and a response with another ident and no other error
\* makes it fail with an out-of-order error that names both idents; for the
\* operations of both classes.
C6_IdentRoundTrip ==
    /\ \A o \in Ops : Answered(o) => IdentLaw(op[o].pc, op[o].ident, op[o].resp, op[o].result)
    /\ \A o \in Ops : leg[o].pc \in {"done", "failed"} /\ leg[o].json # NoResp
           => IdentLaw(leg[o].pc, leg[o].ident, leg[o].json, leg[o].result)

\* C6 as amended: the same, where for the fetch-based class the out-of-order
\* error is the failure of the operation provided the onError callback returns;
\* when onError throws, the operation fails with what onError threw.
C6_IdentRoundTripAmended ==
    /\ \A o \in Ops : Answered(o) => IdentLaw(op[o].pc, op[o].ident, op[o].resp, op[o].result)
    /\ \A o \in Ops : leg[o].pc \in {"done", "failed"} /\ leg[o].json # NoResp
           => IF leg[o].onErrorThrows
              THEN /\ leg[o].pc = "done" => leg[o].json.ident = leg[o].ident
                   /\ (Clean(leg[o].json) /\ leg[o].json.ident # leg[o].ident)
                          => (leg[o].pc = "failed" /\ leg[o].result.kind = "Callback")
              ELSE IdentLaw(leg[o].pc, leg[o].ident, leg[o].json, leg[o].result)

C6_Witness ==
    \E o \in Ops :
        /\ leg[o].pc = "failed" /\ ~leg[o].onErrorThrows
        /\ Clean(leg[o].json) /\ leg[o].json.ident # leg[o].ident
        /\ leg[o].result.kind = "OutOfOrder"

\* C7: of two operations in flight at the same time, neither returns the
\* payload computed for the request of the other, however the responses are
\* delivered.
C7_NoCrossedPayload ==
    \A o \in Ops : op[o].pc = "done" => op[o].returned = op[o].ident

C7_Witness ==
    \E o, p \in Ops :
        /\ o # p
        /\ op[p].pc = "done" /\ op[p].returned = op[p].ident
        /\ op[o].pc = "failed" /\ op[o].ident # NoIdent
        /\ op[o].resp.payload = op[p].ident
        /\ op[o].result.kind = "OutOfOrder"

\* the three clauses of validity of resp against the expected ident
ValidAgainst(resp, ident) ==
    ~NonEmptyList(resp) /\ resp.error = "" /\ resp.ident = ident

\* C8: validateResponse(resp, ident) returns normally only if resp has no
\* non-empty validation-error list, its payload has no application error and
\* the payload's ident is the expected one; otherwise it raises and the
\* operation returns no payload.
C8_AcceptsOnlyValid ==
    /\ (probe.applied /\ probe.ident # NoIdent /\ ~ValidAgainst(probe.resp, probe.ident))
           => probe.out.kind \notin {"ok", "none"}
    /\ \A o \in Ops :
           (Answered(o) /\ ~ValidAgainst(op[o].resp, op[o].ident))
               => (op[o].pc = "failed" /\ op[o].returned = 0 /\ op[o].result.kind # "ok")

C8_Witness ==
    /\ probe.applied /\ probe.ident # NoIdent
    /\ probe.out.kind = "ok" /\ ValidAgainst(probe.resp, probe.ident)

\* C9: validateResponse reports a non-empty validation-error list as a
\* Validation failure whatever the payload holds; otherwise an application
\* error as an Application failure with exactly that string whatever the ident;
\* and an ident mismatch as OutOfOrder only when neither is present.
C9_Precedence ==
    probe.applied =>
        /\ NonEmptyList(probe.resp) => probe.out.kind = "Validation"
        /\ (~NonEmptyList(probe.resp) /\ probe.resp.error # "")
               => probe.out = Outcome("Application", <<probe.resp.error>>)
        /\ probe.out.kind = "OutOfOrder"
               => /\ ~NonEmptyList(probe.resp) /\ probe.resp.error = ""
                  /\ probe.ident # NoIdent /\ probe.resp.ident # probe.ident
        /\ (Clean(probe.resp) /\ probe.ident # NoIdent /\ probe.resp.ident # probe.ident)
               => probe.out.kind = "OutOfOrder"

C9_Witness ==
    /\ probe.applied /\ probe.ident # NoIdent
    /\ ~NonEmptyList(probe.resp) /\ probe.resp.error # ""
    /\ probe.resp.ident # probe.ident
    /\ probe.out.kind = "Application"

\* a login exchange of slot o that has ended without a clean answer
LoginFailed(o) ==
    op[o].logins > 0 /\ op[o].pc # "login" /\ ~Clean(op[o].tokenResp)

\* C10: when the login exchange fails (tokenPost rejects or answers with
\* validation errors, an application error or no data), tryLogin raises,
\* cachedToken and expiration keep their values and the operation issues no
\* conversion request.
C10_FailedLogin ==
    /\ [](\A o \in Ops : LoginFailed(o) => (op[o].pc = "failed" /\ op[o].requests = 0))
    /\ [][\A o \in Ops :
             (op[o].pc = "login" /\ op'[o].pc # "login" /\ ~Clean(op'[o].tokenResp))
                 => (op'[o].pc = "failed" /\ UNCHANGED cache)]_vars

C10_Witness ==
    \E o \in Ops :
        /\ LoginFailed(o) /\ op[o].pc = "failed"
        /\ op[o].tokenResp.hasData
        /\ cachedToken # NullToken /\ cachedToken # op[o].tokenResp.payload

\* C11: check() never raises: it returns null when the liveness request fails
\* at transport level and the client instance otherwise, and in both cases it
\* issues no login exchange and leaves cachedToken and expiration unchanged.
C11_CheckNeverRaises ==
    /\ [](/\ chk.pc # "failed"
          /\ chk.pc = "done" =>
                 /\ chk.event = "rejected" => chk.result = "null"
                 /\ chk.event = "resolved" => chk.result = "this")
    /\ [][chk' # chk => (tokenPosts' = tokenPosts /\ UNCHANGED <<cache, op>>)]_vars

C11_Witness ==
    chk.pc = "done" /\ chk.event = "rejected" /\ chk.result = "null"

\* C12: every conversion request carries the Authorization header "Bearer "
\* followed by the JSON serialization of the token that is in the cache when
\* the request is sent, and that token is not null; also when several
\* interceptors are registered and when another call replaced the token after
\* this call's tryLogin returned.
C12_BearerOfCachedToken ==
    [][\A o \in Ops :
          op'[o].requests > op[o].requests
              => /\ cachedToken # NullToken
                 /\ op'[o].header = <<"Bearer ", ToString(cachedToken)>>]_vars

C12_Witness ==
    \E o \in Ops :
        /\ op[o].pc = "sent" /\ interceptors >= 2
        /\ Clean(op[o].tokenResp)
        /\ op[o].header = <<"Bearer ", ToString(cachedToken)>>
        /\ op[o].header # <<"Bearer ", ToString(op[o].tokenResp.payload)>>

\* C13: no failure is swallowed or retried: one invocation issues at most one
\* login exchange and at most one conversion request, and when the login, the
\* remote call or validateResponse fails, the operation raises and returns no
\* value.
C13_NoSwallowNoRetry ==
    \A o \in Ops :
        /\ op[o].logins <= 1 /\ op[o].requests <= 1
        /\ (op[o].logins > 0 /\ op[o].pc # "login" /\ ~Clean(op[o].tokenResp))
               => (op[o].pc = "failed" /\ op[o].requests = 0 /\ op[o].returned = 0)
        /\ op[o].result.kind \notin {"none", "ok"}
               => (op[o].pc = "failed" /\ op[o].returned = 0)
        /\ op[o].pc = "done"
               => (op[o].result.kind = "ok" /\ op[o].requests = 1 /\ Clean(op[o].resp))

C13_Witness ==
    \E o \in Ops :
        /\ op[o].pc = "failed" /\ op[o].result.kind = "Transport"
        /\ op[o].logins = 1 /\ op[o].requests = 1 /\ op[o].returned = 0

\* C14: the expiry check is not atomic with the refresh: every call decides on
\* its own reading of the cache, so two calls that both read it as empty or
\* expired before either login has completed have two login exchanges in
\* flight at once, and each of them registers its own request interceptor
\* (at most one login in flight is not an invariant).
C14_LoginsNotShared ==
    /\ Cardinality({o \in Ops : op[o].pc = "login"}) <= tokenPosts
    /\ \A o \in Ops :
           op[o].pc = "login" => (op[o].logins = 1 /\ op[o].obs \in {"empty", "near"})
    /\ interceptors >=
           Cardinality({o \in Ops : op[o].pc \in {"ready", "sent"} \/ op[o].requests > 0})

C14_Witness ==
    /\ \A o \in Ops :
           /\ op[o].obs = "empty" /\ op[o].pc = "ready"
           /\ op[o].logins = 1 /\ Clean(op[o].tokenResp)
    /\ op[1].tokenResp.payload # op[2].tokenResp.payload
    /\ tokenPosts = 2
    /\ interceptors = 2

\* C15: at every suspension point the cache is either as the constructor left
\* it (null, 0) or holds the token of the most recently completed successful
\* login together with the instant its answer was processed plus 20 minutes;
\* the two fields are never seen half-updated, and a login that failed or has
\* not completed has left nothing in the cache.
C15_CacheIsLastLogin ==
    \/ /\ lastLogin = NoLogin
       /\ cachedToken = NullToken
       /\ expiration = 0
    \/ /\ lastLogin # NoLogin
       /\ cachedToken # NullToken
       /\ cachedToken = lastLogin.token
       /\ expiration = lastLogin.at + 20 * 60 * 1000

C15_Witness ==
    /\ lastLogin.at > StartNow
    /\ cachedToken = lastLogin.token
    /\ expiration = lastLogin.at + Lifetime
    /\ \E o, q \in Ops :
           /\ op[o].pc = "ready" /\ op[o].tokenResp.payload = cachedToken
           /\ op[q].pc = "failed" /\ op[q].logins = 1 /\ op[q].requests = 0
           /\ op[q].tokenResp.hasData /\ op[q].tokenResp.payload > cachedToken

\* C16: cachedToken and expiration change only in the step of tryLogin that
\* processes a successful login answer; sending the conversion request,
\* receiving its answer, validateResponse passing or raising, and check()
\* leave both as they were, so a failed conversion call does not touch the
\* session.
C16_OnlyLoginWritesCache ==
    [][cache' # cache =>
          /\ chk' = chk
          /\ \E o \in Ops :
                 /\ op[o].pc = "login" /\ op'[o].pc = "ready"
                 /\ Clean(op'[o].tokenResp)
                 /\ op'[o].requests = 0
                 /\ \A q \in Ops \ {o} : op'[q] = op[q]]_vars

C16_Witness ==
    \E o \in Ops :
        /\ Answered(o) /\ op[o].pc = "failed" /\ op[o].requests = 1
        /\ Clean(op[o].tokenResp)
        /\ cachedToken = op[o].tokenResp.payload
        /\ expiration = lastLogin.at + Lifetime

\* C17: once a login has succeeded cachedToken is never null again and
\* expiration never decreases, whatever the sequence and interleaving of
\* calls, two concurrent logins answered in either order included.
C17_CacheMonotone ==
    [][/\ cachedToken # NullToken => cachedToken' # NullToken
       /\ expiration' >= expiration]_vars

C17_Witness ==
    /\ \A o \in Ops : op[o].obs = "empty" /\ op[o].logins = 1 /\ op[o].pc # "login"
    /\ Clean(op[2].tokenResp) /\ ~Clean(op[1].tokenResp)
    /\ op[1].tokenResp.hasData /\ op[1].tokenResp.payload > op[2].tokenResp.payload
    /\ cachedToken = op[2].tokenResp.payload
    /\ expiration >= StartNow + Lifetime

\* C18 (as stated): for a validation-error list m1..mn, n >= 1, the Validation
\* failure carries exactly m1..mn in list order joined by newlines, with
\* nothing between or after them.
C18_JoinedByNewlines ==
    (probe.applied /\ NonEmptyList(probe.resp)) =>
        LET d == probe.resp.detail
            m == probe.out.msg
            n == Len(d)
        IN  /\ probe.out.kind = "Validation"
            /\ Len(m) = 2 * n
            /\ \A k \in 1..n : m[2 * k] = d[k]
            /\ \A k \in 1..(n - 1) : m[2 * k + 1] = "\n"

\* C18 (amended): the Validation failure's message is the prefix
\* "Validation error: " followed by m1..mn in list order, every one of them,
\* the last included, followed by a newline; none dropped, none duplicated.
C18_EachFollowedByNewline ==
    (probe.applied /\ NonEmptyList(probe.resp)) =>
        LET d == probe.resp.detail
            m == probe.out.msg
            n == Len(d)
        IN  /\ probe.out.kind = "Validation"
            /\ Len(m) = 2 * n + 1
            /\ m[1] = "Validation error: "
            /\ \A k \in 1..n : m[2 * k] = d[k] /\ m[2 * k + 1] = "\n"

C18_Witness ==
    /\ probe.applied
    /\ probe.resp.detail = <<"m1", "m2">>
    /\ probe.out = Outcome("Validation", <<"Validation error: ", "m1", "\n", "m2", "\n">>)

\* C19: in the fetch-based client, a body that both carries an application
\* error string and does not echo the request's ident makes dataFromServer
\* report the application error, not the out-of-order error, so that
\* fixedToJ2000 / currentPosition raise with exactly the server's message.
C19_LegacyApplicationErrorFirst ==
    \A o \in Ops :
        ( /\ leg[o].pc \in {"done", "failed"}
          /\ leg[o].json # NoResp
          /\ leg[o].json.error # ""
          /\ leg[o].json.ident # leg[o].ident
          /\ ~leg[o].onErrorThrows )
        => /\ leg[o].pc = "failed"
           /\ leg[o].result = Outcome("Application", <<leg[o].json.error>>)

\* how often the callback or step x occurs in the log of an invocation
Count(log, x) == Cardinality({i \in 1..Len(log) : log[i] = x})

\* the invocation of dataFromServer in slot o has ended
Ended(o) == leg[o].pc \in {"done", "failed", "resolved", "rejected"}

\* every invocation calls isLoading(true) exactly once, first and before the
\* fetch, and isLoading(false) exactly once, as its last callback
LoadingBrackets ==
    \A o \in Ops :
        LET l == leg[o].log
        IN  /\ leg[o].pc \in {"fetching", "parsing"} => l = <<"isLoading(true)", "fetch">>
            /\ Ended(o) =>
                   /\ Count(l, "isLoading(true)") = 1 /\ l[1] = "isLoading(true)"
                   /\ Count(l, "fetch") <= 1
                   /\ Count(l, "fetch") = 1 => l[2] = "fetch"
                   /\ Count(l, "isLoading(false)") = 1 /\ l[Len(l)] = "isLoading(false)"

\* onError once on a failing outcome, never on success; setData on success only
CallbacksMatchOutcome(o) ==
    LET l == leg[o].log
    IN  IF leg[o].result.kind = "ok"
        THEN Count(l, "onError") = 0
        ELSE Count(l, "onError") = 1 /\ Count(l, "setData") = 0

====
